---------------------------- MODULE Spec2Model ----------------------------
(***************************************************************************)
(* Model of src/bot.py: the extraction pipeline process_file (regex scan,  *)
(* ordered validation, normalisation, progress messages) and the /scrap    *)
(* handler scrap_command with its files under TEMP_DIR.                     *)
(*                                                                         *)
(* A text is a sequence of one-character strings.                          *)
(***************************************************************************)
EXTENDS Integers, Sequences, FiniteSets, TLC

VARIABLES
    text,           \* content of the file process_file reads (line 52)
    current_yy,     \* datetime.now().year % 100 (line 69)
    target_bin,     \* the target_bin argument (line 46)
    pc,             \* position of process_file: "read", "scan", "summary", "done"
    matches,        \* pattern.findall(text) (line 60)
    i,              \* loop index of enumerate(matches, 1) (line 72)
    results,        \* list of output lines (line 48)
    reject_counts,  \* line 49
    sample_rejects, \* line 50
    processed,      \* line 70
    progress,       \* progress messages sent by line 109, in order
    summary,        \* the final summary message of line 124, or NoMsg
    inv,            \* scrap_command: the state of each invocation
    files           \* scrap_command: the files under TEMP_DIR, path -> content

pvars == <<text, current_yy, target_bin, pc, matches, i, results,
           reject_counts, sample_rejects, processed, progress, summary>>
cvars == <<inv, files>>
vars == <<text, current_yy, target_bin, pc, matches, i, results,
          reject_counts, sample_rejects, processed, progress, summary,
          inv, files>>

---------------------------------------------------------------------------
(* Bounds of the model *)

\* number of four-field chunks an input text is built from
MaxRecords == 2

---------------------------------------------------------------------------
(* Characters and Python string helpers *)

Digits == {"0", "1", "2", "3", "4", "5", "6", "7", "8", "9"}

\* the characters \s matches, among those the inputs use
Whitespace == {" ", "\t", "\n"}

DigitVal(c) ==
    CASE c = "0" -> 0 [] c = "1" -> 1 [] c = "2" -> 2 [] c = "3" -> 3
      [] c = "4" -> 4 [] c = "5" -> 5 [] c = "6" -> 6 [] c = "7" -> 7
      [] c = "8" -> 8 [] c = "9" -> 9

DigitChar(n) ==
    CASE n = 0 -> "0" [] n = 1 -> "1" [] n = 2 -> "2" [] n = 3 -> "3"
      [] n = 4 -> "4" [] n = 5 -> "5" [] n = 6 -> "6" [] n = 7 -> "7"
      [] n = 8 -> "8" [] n = 9 -> "9"

Rep(c, n) == [k \in 1..n |-> c]

Max(S) == CHOOSE x \in S : \A y \in S : y <= x

\* str.zfill(w)
zfill(s, w) == IF Len(s) >= w THEN s ELSE Rep("0", w - Len(s)) \o s

\* s[:2], a faulty variant of s[-2:]
First2(s) == IF Len(s) <= 2 THEN s ELSE SubSeq(s, 1, 2)

\* s[-2:]
Last2(s) == IF Len(s) <= 2 THEN s ELSE SubSeq(s, Len(s) - 1, Len(s))

\* str.isdigit()
isdigit(s) == Len(s) > 0 /\ \A k \in 1..Len(s) : s[k] \in Digits

\* int(s) of a digit string
RECURSIVE int(_)
int(s) == IF Len(s) = 0 THEN 0
          ELSE 10 * int(SubSeq(s, 1, Len(s) - 1)) + DigitVal(s[Len(s)])

\* str.strip()
RECURSIVE strip(_)
strip(s) ==
    IF Len(s) = 0 THEN s
    ELSE IF s[1] \in Whitespace THEN strip(Tail(s))
    ELSE IF s[Len(s)] \in Whitespace THEN strip(SubSeq(s, 1, Len(s) - 1))
    ELSE s

\* a substring test (`target_bin in card`), the faulty variant of startswith
contains(s, prefix) ==
    \E k \in 0..Len(s) :
        k + Len(prefix) <= Len(s) /\ SubSeq(s, k + 1, k + Len(prefix)) = prefix

\* str.startswith(prefix)
startswith(s, prefix) ==
    Len(prefix) <= Len(s) /\ SubSeq(s, 1, Len(prefix)) = prefix

\* target_bin = None
None == <<"None">>

\* truth value of target_bin in `if target_bin and ...` (line 99)
Truthy(tb) == tb # None /\ Len(tb) > 0

---------------------------------------------------------------------------
(* The pattern of line 59 and findall of line 60 *)

\* the {16} of (\d{16})
CardLen == 16

\* number of consecutive characters of S in t from position p
RECURSIVE RunLen(_, _, _)
RunLen(t, p, S) ==
    IF p > Len(t) \/ t[p] \notin S THEN 0 ELSE 1 + RunLen(t, p + 1, S)

\* the repetition counts \d{lo,hi} can take at p
Takes(t, p, lo, hi) == {k \in lo..hi : k <= RunLen(t, p, Digits)}

\* \s*[|]\s* at p: the position after it, or 0 when it does not match.
\* A whitespace character is neither "|" nor a digit, so giving back
\* whitespace never lets the rest match: \s* takes the whole run.
SepAt(t, p) ==
    LET a == p + RunLen(t, p, Whitespace)
    IN  IF a <= Len(t) /\ t[a] = "|"
        THEN a + 1 + RunLen(t, a + 1, Whitespace)
        ELSE 0

\* (\d{3,4}) at p: greedy, nothing follows it
CvvLen(t, p) == LET ks == Takes(t, p, 3, 4) IN IF ks = {} THEN 0 ELSE Max(ks)

\* \s*[|]\s*(\d{3,4}) matches at q
AfterYear(t, q) == SepAt(t, q) # 0 /\ CvvLen(t, SepAt(t, q)) # 0

\* (\d{2,4}) at p: the greatest count after which the rest matches, or 0
YearLen(t, p) ==
    LET ks == {k \in Takes(t, p, 2, 4) : AfterYear(t, p + k)}
    IN  IF ks = {} THEN 0 ELSE Max(ks)

AfterMonth(t, q) == SepAt(t, q) # 0 /\ YearLen(t, SepAt(t, q)) # 0

\* (\d{1,2}) at p: the greatest count after which the rest matches, or 0
MonthLen(t, p) ==
    LET ks == {k \in Takes(t, p, 1, 2) : AfterMonth(t, p + k)}
    IN  IF ks = {} THEN 0 ELSE Max(ks)

\* \s*[|]\s*(\d{1,2})\s*[|]\s*(\d{2,4})\s*[|]\s*(\d{3,4}) matches at q
AfterCard(t, q) == SepAt(t, q) # 0 /\ MonthLen(t, SepAt(t, q)) # 0

\* the pattern matches at p
MatchesAt(t, p) == RunLen(t, p, Digits) >= CardLen /\ AfterCard(t, p + CardLen)

\* the groups of the match at p, its start and the position after it
MatchAt(t, p) ==
    LET m1 == SepAt(t, p + CardLen)
        ml == MonthLen(t, m1)
        y1 == SepAt(t, m1 + ml)
        yl == YearLen(t, y1)
        c1 == SepAt(t, y1 + yl)
        cl == CvvLen(t, c1)
    IN  [card  |-> SubSeq(t, p, p + CardLen - 1),
         mm    |-> SubSeq(t, m1, m1 + ml - 1),
         yy    |-> SubSeq(t, y1, y1 + yl - 1),
         cvv   |-> SubSeq(t, c1, c1 + cl - 1),
         start |-> p,
         end   |-> c1 + cl]

\* findall: leftmost match, then on from its end; start and end are the
\* scanner's own bookkeeping (re.Match.start(), .end())
RECURSIVE FindAll(_, _)
FindAll(t, p) ==
    IF p > Len(t) THEN <<>>
    ELSE IF MatchesAt(t, p)
         THEN <<MatchAt(t, p)>> \o FindAll(t, MatchAt(t, p).end)
         ELSE FindAll(t, p + 1)

---------------------------------------------------------------------------
(* The loop of process_file, lines 72-113 *)

\* `len(card) != 16` of line 74
ExactLen == 16

\* `yy_int < current_yy - 6` of line 95
Window == 6

\* `i % 1000 == 0` of line 107
ProgressEvery == 1000

\* `datetime.now().year % 100` of line 69
Century == 100

Reasons == {"bad_length", "bad_digits", "bad_cvv", "old", "no_bin_match"}

mm_clean(mm) == zfill(mm, 2)

yy_clean(yy) == zfill(Last2(yy), 2)

cvv_clean(cvv) == strip(cvv)

\* a faulty variant of Validate: the BIN filter before the recency check
ValidateBinFirst(card, mm, yy, cvv, cur, tb) ==
    IF Len(card) # ExactLen THEN "bad_length"
    ELSE IF ~isdigit(card) THEN "bad_digits"
    ELSE IF ~isdigit(cvv_clean(cvv)) \/ Len(cvv_clean(cvv)) \notin {3, 4}
         THEN "bad_cvv"
    ELSE IF Truthy(tb) /\ ~startswith(card, tb) THEN "no_bin_match"
    ELSE IF int(yy_clean(yy)) < cur - Window THEN "old"
    ELSE "ok"

\* a faulty variant of Validate: `yy_int <= current_yy - 6`
ValidateInclusive(card, mm, yy, cvv, cur, tb) ==
    IF Len(card) # ExactLen THEN "bad_length"
    ELSE IF ~isdigit(card) THEN "bad_digits"
    ELSE IF ~isdigit(cvv_clean(cvv)) \/ Len(cvv_clean(cvv)) \notin {3, 4}
         THEN "bad_cvv"
    ELSE IF int(yy_clean(yy)) <= cur - Window THEN "old"
    ELSE IF Truthy(tb) /\ ~startswith(card, tb) THEN "no_bin_match"
    ELSE "ok"

\* the rule that rejects a candidate, or "ok": the chain of `continue`s
Validate(card, mm, yy, cvv, cur, tb) ==
    IF Len(card) # ExactLen THEN "bad_length"
    ELSE IF ~isdigit(card) THEN "bad_digits"
    ELSE IF ~isdigit(cvv_clean(cvv)) \/ Len(cvv_clean(cvv)) \notin {3, 4}
         THEN "bad_cvv"
    ELSE IF int(yy_clean(yy)) < cur - Window THEN "old"
    ELSE IF Truthy(tb) /\ ~startswith(card, tb) THEN "no_bin_match"
    ELSE "ok"

\* a faulty variant of FormatLine: the line end left out
FormatLineNoEnd(card, mm, yy, cvv) ==
    card \o <<"|">> \o mm_clean(mm) \o <<"|">> \o yy_clean(yy) \o <<"|">>
         \o cvv_clean(cvv)

\* a faulty variant of append: a line already kept is not kept again
appendUnique(rs, line) ==
    IF \E k \in 1..Len(rs) : rs[k] = line THEN rs ELSE Append(rs, line)

\* results.append(...) of line 103
append(rs, line) == Append(rs, line)

\* f"{card}|{mm_clean}|{yy_clean}|{cvv_clean}\n" of line 103
FormatLine(card, mm, yy, cvv) ==
    card \o <<"|">> \o mm_clean(mm) \o <<"|">> \o yy_clean(yy) \o <<"|">>
         \o cvv_clean(cvv) \o <<"\n">>

\* the locals of process_file before the loop (lines 48-50, 70)
EmptyRun ==
    [results        |-> <<>>,
     reject_counts  |-> [r \in Reasons |-> 0],
     sample_rejects |-> <<>>,
     processed      |-> 0,
     progress       |-> <<>>]

\* one iteration of the loop, for candidate number k of total
LoopBody(st, k, m, total, cur, tb) ==
    LET r == Validate(m.card, m.mm, m.yy, m.cvv, cur, tb)
    IN  IF r # "ok"
        THEN [st EXCEPT
                !.reject_counts[r] = @ + 1,
                !.sample_rejects =
                    IF r = "bad_digits" /\ Len(@) < 3
                    THEN Append(@, m.card) ELSE @]
        ELSE LET res == append(st.results,
                               FormatLine(m.card, m.mm, m.yy, m.cvv))
                 n   == st.processed + 1
             IN  [st EXCEPT
                    !.results = res,
                    !.processed = n,
                    !.progress =
                        IF k % ProgressEvery = 0 \/ k = total
                        THEN Append(@, [i |-> k, total |-> total,
                                        valid |-> n, kept |-> Len(res)])
                        ELSE @]

RECURSIVE RunLoop(_, _, _, _, _)
RunLoop(st, k, ms, cur, tb) ==
    IF k > Len(ms) THEN st
    ELSE RunLoop(LoopBody(st, k, ms[k], Len(ms), cur, tb), k + 1, ms, cur, tb)

\* process_file as a function of the file's text: what it returns
\* (results, processed) and the counters its summary reports
ProcessFile(t, cur, tb) == RunLoop(EmptyRun, 1, FindAll(t, 1), cur, tb)

---------------------------------------------------------------------------
(* Inputs *)

A16 == <<"4","0","0","0","1","2","3","4","5","6","7","8","9","0","1","0">>

B16 == <<"5","1">> \o Rep("7", 14)

\* a run of 17 digits
R17 == <<"9">> \o A16

NumberFields == {A16, B16, R17}

TailPlain == <<"|","0","5","|","2","0","2","5","|","1","2","3">>

TailSpaced == <<" ","|"," ","5","\t","|"," ","2","5"," ","|"," ","1","2","3","4">>

TailOld == <<"|","1","3","|","0","1","9","|","1","2","3">>

TailShortCode == <<"|","0","1","|","2","5","|","1","2">>

\* a run of five digits after the last separator
TailLongCode == <<"|","7","|","9","9","|","1","2","3","4","5">>

Tails == {TailPlain, TailSpaced, TailOld, TailShortCode, TailLongCode}

Chunks == {n \o tl \o <<"\n">> : n \in NumberFields, tl \in Tails}

RECURSIVE Concat(_)
Concat(ss) == IF Len(ss) = 0 THEN <<>> ELSE Head(ss) \o Concat(Tail(ss))

Texts == {Concat(cs) : cs \in UNION {[1..n -> Chunks] : n \in 0..MaxRecords}}

TwoDigits(n) == <<DigitChar(n \div 10), DigitChar(n % 10)>>

YearTexts ==
    {A16 \o <<"|","0","5","|">> \o TwoDigits(y) \o <<"|","1","2","3","\n">> :
        y \in 0..(Century - 1)}

\* no target_bin, an empty one, a prefix of A16, and digits that A16 holds
\* but does not start with
Bins == {None, <<>>, <<"4","0","0","0">>, <<"0","0","0","1">>}

NoMsg == [none |-> TRUE]

---------------------------------------------------------------------------
(* process_file, step by step *)

InitPipeline ==
    /\ \/ /\ text \in Texts
          /\ current_yy \in {26}
          /\ target_bin \in Bins
       \/ /\ text \in Texts
          /\ current_yy \in {3}
          /\ target_bin = None
       \/ /\ text \in YearTexts
          /\ current_yy \in 0..(Century - 1)
          /\ target_bin = None
    /\ pc = "read"
    /\ matches = <<>>
    /\ i = 0
    /\ results = EmptyRun.results
    /\ reject_counts = EmptyRun.reject_counts
    /\ sample_rejects = EmptyRun.sample_rejects
    /\ processed = EmptyRun.processed
    /\ progress = EmptyRun.progress
    /\ summary = NoMsg

\* lines 52-70: read, findall, the early return on no match
Extract ==
    /\ pc = "read"
    /\ matches' = FindAll(text, 1)
    /\ pc' = IF Len(matches') = 0 THEN "done" ELSE "scan"
    /\ i' = IF Len(matches') = 0 THEN 0 ELSE 1
    /\ UNCHANGED <<text, current_yy, target_bin, results, reject_counts,
                   sample_rejects, processed, progress, summary, cvars>>

\* lines 72-113: one iteration
ScanCandidate ==
    /\ pc = "scan"
    /\ LET st == LoopBody([results        |-> results,
                           reject_counts  |-> reject_counts,
                           sample_rejects |-> sample_rejects,
                           processed      |-> processed,
                           progress       |-> progress],
                          i, matches[i], Len(matches), current_yy, target_bin)
       IN  /\ results' = st.results
           /\ reject_counts' = st.reject_counts
           /\ sample_rejects' = st.sample_rejects
           /\ processed' = st.processed
           /\ progress' = st.progress
    /\ i' = IF i = Len(matches) THEN i ELSE i + 1
    /\ pc' = IF i = Len(matches) THEN "summary" ELSE "scan"
    /\ UNCHANGED <<text, current_yy, target_bin, matches, summary, cvars>>

\* lines 115-129: the final summary and the return
FinalSummary ==
    /\ pc = "summary"
    /\ summary' = [valid      |-> processed,
                   total      |-> Len(matches),
                   rejections |-> {r \in Reasons : reject_counts[r] > 0},
                   samples    |-> sample_rejects,
                   zero_kept  |-> (results = <<>>)]
    /\ pc' = "done"
    /\ UNCHANGED <<text, current_yy, target_bin, matches, i, results,
                   reject_counts, sample_rejects, processed, progress, cvars>>

NextPipeline == Extract \/ ScanCandidate \/ FinalSummary

---------------------------------------------------------------------------
(* scrap_command, lines 190-228, and the files under TEMP_DIR *)

\* number of /scrap invocations in flight
NumInvocations == 2

Invocations == 1..NumInvocations

\* a file that does not exist
Absent == <<"ENOENT">>

NoPath == <<"nopath">>

\* update.message.reply_to_message.document is missing
NoDoc == [file_id |-> "none", file_name |-> <<"", "">>, content |-> <<>>]

\* the documents a /scrap may reply to; file_name is <<stem, extension>>
Docs ==
    {[file_id |-> "f1", file_name |-> <<"a", "txt">>,
      content |-> A16 \o TailPlain \o <<"\n">>],
     [file_id |-> "f2", file_name |-> <<"a", "txt">>,
      content |-> B16 \o TailSpaced \o <<"\n">>],
     [file_id |-> "f3", file_name |-> <<"b", "TXT">>,
      content |-> A16 \o TailOld \o <<"\n">>],
     [file_id |-> "f4", file_name |-> <<"c", "txt">>, content |-> <<>>],
     [file_id |-> "f5", file_name |-> <<"d", "pdf">>,
      content |-> A16 \o TailPlain \o <<"\n">>]}

\* doc.file_name.lower().endswith('.txt')
IsTxt(file_name) == file_name[2] \in {"txt", "TXT", "Txt"}

\* TEMP_DIR / f"scrap_{doc.file_id}.txt" (line 203)
temp_path(doc) == <<"scrap", doc.file_id>>

\* TEMP_DIR / f"extracted_{doc.file_name}" (lines 216-217)
out_path(doc) == <<"extracted", doc.file_name>>

Paths == {temp_path(d) : d \in Docs} \cup {out_path(d) : d \in Docs}

\* a write through `path` reaches every open handle on the file it names
AfterWrite(iv, path, content) ==
    [k \in DOMAIN iv |->
        IF iv[k].h_path = path /\ iv[k].h_attached
        THEN [iv[k] EXCEPT !.h_content = content] ELSE iv[k]]

\* an unlinked file lives on, under no name, for the handles open on it
AfterUnlink(iv, path) ==
    [k \in DOMAIN iv |->
        IF iv[k].h_path = path
        THEN [iv[k] EXCEPT !.h_attached = FALSE] ELSE iv[k]]

InitConcurrent ==
    /\ inv \in [Invocations ->
                 {[pc |-> "start", doc |-> d, text |-> <<>>, results |-> <<>>,
                   h_path |-> NoPath, h_attached |-> FALSE, h_content |-> <<>>,
                   written |-> <<>>, delivered |-> Absent, outcome |-> "none"] :
                  d \in Docs \cup {NoDoc}}]
    /\ files = [q \in Paths |-> Absent]

\* lines 191-200: the two refusals, else "Downloading file..."
Start(k) ==
    /\ inv[k].pc = "start"
    /\ inv' = [inv EXCEPT
                 ![k].pc = IF inv[k].doc = NoDoc \/ ~IsTxt(inv[k].doc.file_name)
                           THEN "done" ELSE "get_file",
                 ![k].outcome = IF inv[k].doc = NoDoc THEN "usage"
                                ELSE IF ~IsTxt(inv[k].doc.file_name)
                                     THEN "only_txt" ELSE @]
    /\ UNCHANGED <<files, pvars>>

\* line 201: await doc.get_file()
GetFile(k) ==
    /\ inv[k].pc = "get_file"
    /\ inv' = [inv EXCEPT ![k].pc = "download"]
    /\ UNCHANGED <<files, pvars>>

\* lines 203-204: await file.download_to_drive(custom_path=temp_path)
Download(k) ==
    /\ inv[k].pc = "download"
    /\ files' = [files EXCEPT ![temp_path(inv[k].doc)] = inv[k].doc.content]
    /\ inv' = [AfterWrite(inv, temp_path(inv[k].doc), inv[k].doc.content)
                 EXCEPT ![k].pc = "downloaded"]
    /\ UNCHANGED pvars

\* lines 206-211: stat, then "Downloaded file is empty" or "Extracting CCs..."
Stat(k) ==
    /\ inv[k].pc = "downloaded"
    /\ inv' = [inv EXCEPT
                 ![k].pc = IF files[temp_path(inv[k].doc)] = Absent
                           THEN "crashed"
                           ELSE IF Len(files[temp_path(inv[k].doc)]) = 0
                                THEN "empty" ELSE "extract",
                 ![k].outcome = IF files[temp_path(inv[k].doc)] = Absent
                                THEN "FileNotFoundError" ELSE @]
    /\ UNCHANGED <<files, pvars>>

\* line 208, after the reply of line 207
EmptyCleanup(k) ==
    /\ inv[k].pc = "empty"
    /\ files' = [files EXCEPT ![temp_path(inv[k].doc)] = Absent]
    /\ inv' = [AfterUnlink(inv, temp_path(inv[k].doc))
                 EXCEPT ![k].pc = "done", ![k].outcome = "empty"]
    /\ UNCHANGED pvars

\* line 213 up to line 52: process_file reads the downloaded file
ReadText(k) ==
    /\ inv[k].pc = "extract"
    /\ inv' = [inv EXCEPT
                 ![k].pc = IF files[temp_path(inv[k].doc)] = Absent
                           THEN "crashed" ELSE "processing",
                 ![k].outcome = IF files[temp_path(inv[k].doc)] = Absent
                                THEN "FileNotFoundError" ELSE @,
                 ![k].text = IF files[temp_path(inv[k].doc)] = Absent
                             THEN @ ELSE files[temp_path(inv[k].doc)]]
    /\ UNCHANGED <<files, pvars>>

\* the rest of process_file (target_bin=None), then lines 215-226: write the
\* output file and open it for reply_document, or "No valid 16-digit CCs"
Process(k) ==
    /\ inv[k].pc = "processing"
    /\ LET res == ProcessFile(inv[k].text, current_yy, None).results
           out == Concat(res)
           q   == out_path(inv[k].doc)
       IN  IF Len(res) > 0
           THEN /\ files' = [files EXCEPT ![q] = out]
                /\ inv' = [AfterWrite(inv, q, out) EXCEPT
                             ![k].pc = "sending",
                             ![k].results = res,
                             ![k].written = out,
                             ![k].h_path = q,
                             ![k].h_attached = TRUE,
                             ![k].h_content = out]
           ELSE /\ inv' = [inv EXCEPT ![k].pc = "cleanup", ![k].results = res]
                /\ UNCHANGED files
    /\ UNCHANGED pvars

\* reply_document returns (it read the handle when it was given it, or
\* later), then lines 224 and 228
Sent(k) ==
    /\ inv[k].pc = "sending"
    /\ \E d \in {inv[k].written, inv[k].h_content} :
         /\ files' = [files EXCEPT ![out_path(inv[k].doc)] = Absent,
                                   ![temp_path(inv[k].doc)] = Absent]
         /\ inv' = [AfterUnlink(AfterUnlink(inv, out_path(inv[k].doc)),
                                temp_path(inv[k].doc))
                      EXCEPT ![k].pc = "done",
                             ![k].outcome = "sent",
                             ![k].delivered = d,
                             ![k].h_path = NoPath]
    /\ UNCHANGED pvars

\* line 228 after the reply of line 226
Cleanup(k) ==
    /\ inv[k].pc = "cleanup"
    /\ files' = [files EXCEPT ![temp_path(inv[k].doc)] = Absent]
    /\ inv' = [AfterUnlink(inv, temp_path(inv[k].doc))
                 EXCEPT ![k].pc = "done", ![k].outcome = "no_valid"]
    /\ UNCHANGED pvars

NextConcurrent ==
    \E k \in Invocations :
        \/ Start(k)
        \/ GetFile(k)
        \/ Download(k)
        \/ Stat(k)
        \/ EmptyCleanup(k)
        \/ ReadText(k)
        \/ Process(k)
        \/ Sent(k)
        \/ Cleanup(k)

---------------------------------------------------------------------------
(* Specifications *)

\* no /scrap in flight
IdleConcurrent ==
    /\ inv = [k \in Invocations |-> "idle"]
    /\ files = [q \in Paths |-> Absent]

\* process_file alone, on one input
Init == InitPipeline /\ IdleConcurrent

Spec == Init /\ [][NextPipeline]_vars

\* process_file is run inside Process, not step by step
IdlePipeline ==
    /\ text = <<>>
    /\ current_yy \in {26}
    /\ target_bin = None
    /\ pc = "idle"
    /\ matches = <<>>
    /\ i = 0
    /\ results = <<>>
    /\ reject_counts = EmptyRun.reject_counts
    /\ sample_rejects = <<>>
    /\ processed = 0
    /\ progress = <<>>
    /\ summary = NoMsg

\* the /scrap invocations, interleaved at their await points
InitScrap == InitConcurrent /\ IdlePipeline

SpecConcurrent == InitScrap /\ [][NextConcurrent]_vars

---------------------------------------------------------------------------
(* Vocabulary of the properties *)

\* number of candidates the loop has gone through
Scanned ==
    IF pc = "scan" THEN i - 1
    ELSE IF pc \in {"summary", "done"} THEN Len(matches) ELSE 0

Running == pc \in {"scan", "summary", "done"}

\* the fields of a line between its "|"
RECURSIVE SplitBar(_)
SplitBar(s) ==
    IF \A k \in 1..Len(s) : s[k] # "|" THEN <<s>>
    ELSE LET b == CHOOSE k \in 1..Len(s) :
                      s[k] = "|" /\ \A j \in 1..(k - 1) : s[j] # "|"
         IN  <<SubSeq(s, 1, b - 1)>> \o SplitBar(SubSeq(s, b + 1, Len(s)))

\* the four fields of an output line, without its line end
LineFields(line) == SplitBar(SubSeq(line, 1, Len(line) - 1))

\* the value of the last two digits of a raw year
TwoDigitYear(yy) == 10 * DigitVal(yy[Len(yy) - 1]) + DigitVal(yy[Len(yy)])

\* position p lies in a run of more than CardLen digits
InLongRun(t, p) ==
    \/ p > 1 /\ t[p - 1] \in Digits
    \/ RunLen(t, p, Digits) > CardLen

\* the loop has just accepted candidate i
Accepts == pc = "scan" /\ Len(results') = Len(results) + 1

\* the line the contract asks for
ExpectedLine(m) ==
    m.card \o <<"|">>
      \o (IF Len(m.mm) = 1 THEN <<"0">> \o m.mm ELSE m.mm) \o <<"|">>
      \o <<m.yy[Len(m.yy) - 1], m.yy[Len(m.yy)]>> \o <<"|">>
      \o m.cvv \o <<"\n">>

HasPrefix(card, tb) ==
    \A j \in 1..Len(tb) : j <= Len(card) /\ card[j] = tb[j]

BinPresent == target_bin # None /\ target_bin # <<>>

\* the rules in the order of the contract
RuleOrder == <<"bad_length", "bad_digits", "bad_cvv", "old", "no_bin_match">>

Fails(r, m) ==
    CASE r = "bad_length" -> Len(m.card) # 16
      [] r = "bad_digits" -> \E k \in 1..Len(m.card) : m.card[k] \notin Digits
      [] r = "bad_cvv" -> \/ Len(m.cvv) \notin {3, 4}
                          \/ \E k \in 1..Len(m.cvv) : m.cvv[k] \notin Digits
      [] r = "old" -> TwoDigitYear(m.yy) < current_yy - 6
      [] r = "no_bin_match" -> BinPresent /\ ~HasPrefix(m.card, target_bin)

FirstFailing(m) ==
    IF \E j \in 1..Len(RuleOrder) : Fails(RuleOrder[j], m)
    THEN RuleOrder[CHOOSE j \in 1..Len(RuleOrder) :
                      /\ Fails(RuleOrder[j], m)
                      /\ \A h \in 1..(j - 1) : ~Fails(RuleOrder[h], m)]
    ELSE "ok"

RECURSIVE SumOver(_, _)
SumOver(f, S) ==
    IF S = {} THEN 0
    ELSE LET x == CHOOSE y \in S : TRUE IN f[x] + SumOver(f, S \ {x})

\* the lines of the valid candidates among the first n, in order
RECURSIVE ValidLines(_)
ValidLines(n) ==
    IF n = 0 THEN <<>>
    ELSE IF FirstFailing(matches[n]) = "ok"
         THEN Append(ValidLines(n - 1), ExpectedLine(matches[n]))
         ELSE ValidLines(n - 1)

---------------------------------------------------------------------------
(* Properties *)

\* C1: Boundary rejection. No accepted record's number is cut out of a run
\* of 17 or more digits that a well-formed |mm|yy|cvv tail follows: when the
\* loop accepts a candidate, the candidate does not lie in such a run.
C1_BoundaryRejection ==
    [][Accepts => ~InLongRun(text, matches[i].start)]_vars

\* C2: every kept record has a 16-digit number and the 3-digit security code
\* of the 16-digit family.
C2_NormalizedRecord ==
    \A j \in 1..Len(results) :
        /\ Len(LineFields(results[j])) = 4
        /\ Len(LineFields(results[j])[1]) = 16
        /\ Len(LineFields(results[j])[4]) = 3

\* C3: the line emitted for an accepted candidate is number|month|year|code
\* with number and code as matched, the month left-padded with "0" to two
\* digits and the year cut to its last two digits.
C3_EmittedLine ==
    [][Accepts => results'[Len(results')] = ExpectedLine(matches[i])]_vars

C3_Witness ==
    /\ pc = "done"
    /\ Len(results) = 2
    /\ matches[1].mm = <<"5">>
    /\ matches[2].yy = <<"2", "0", "2", "5">>
    /\ results[2] = A16 \o <<"|","0","5","|","2","5","|","1","2","3","\n">>

\* C4: every scanned candidate is accepted or counted once, under the first
\* rule it fails in the order length, digits, code, recency, BIN; accepted
\* plus rejected equals the number scanned.
C4_OrderedShortCircuit ==
    Running =>
        /\ Len(results) + SumOver(reject_counts, Reasons) = Scanned
        /\ processed = Len(results)
        /\ \A r \in Reasons :
              reject_counts[r] =
                  Cardinality({k \in 1..Scanned : FirstFailing(matches[k]) = r})

C4_Witness ==
    /\ pc = "done"
    /\ Len(matches) = 2
    /\ Fails("old", matches[1]) /\ Fails("no_bin_match", matches[1])
    /\ reject_counts["old"] = 1
    /\ reject_counts["no_bin_match"] = 1

\* C5: results is the subsequence of the matches, in text order, that pass
\* every rule; nothing is dropped as a duplicate.
C5_OrderPreserved ==
    Running =>
        /\ results = ValidLines(Scanned)
        /\ \A k \in 1..(Len(matches) - 1) :
              matches[k].end <= matches[k + 1].start

C5_Witness ==
    /\ pc = "done"
    /\ Len(results) = 2
    /\ results[1] = results[2]

\* C6: a candidate is counted old exactly when its two-digit year is below
\* current_yy - 6, and no kept record has a year below that.
C6_Recency ==
    Running =>
        /\ reject_counts["old"] =
              Cardinality({k \in 1..Scanned :
                              TwoDigitYear(matches[k].yy) < current_yy - 6})
        /\ \A j \in 1..Len(results) :
              TwoDigitYear(LineFields(results[j])[3]) >= current_yy - 6

C6_Witness ==
    /\ pc = "done"
    /\ Len(matches) = 1
    /\ TwoDigitYear(matches[1].yy) = current_yy - 7
    /\ reject_counts["old"] = 1

\* C7: without a target_bin nothing is counted no_bin_match; with one, an
\* otherwise valid candidate is kept exactly when its number starts with it
\* and is counted no_bin_match otherwise.
C7_BinFilter ==
    Running =>
        LET valid == {k \in 1..Scanned :
                         \A j \in 1..4 : ~Fails(RuleOrder[j], matches[k])}
            with == {k \in valid : HasPrefix(matches[k].card, target_bin)}
        IN  IF BinPresent
            THEN /\ Len(results) = Cardinality(with)
                 /\ reject_counts["no_bin_match"] = Cardinality(valid \ with)
            ELSE /\ Len(results) = Cardinality(valid)
                 /\ reject_counts["no_bin_match"] = 0

C7_Witness ==
    /\ pc = "done"
    /\ target_bin = <<"4", "0", "0", "0">>
    /\ Len(results) = 1
    /\ reject_counts["no_bin_match"] = 1

\* C8: process_file on the concatenation of the lines it returned gives the
\* same lines, accepts every candidate and rejects none.
C8_Idempotent ==
    pc = "done" =>
        LET again == ProcessFile(Concat(results), current_yy, target_bin)
        IN  /\ again.results = results
            /\ again.processed = Len(FindAll(Concat(results), 1))
            /\ \A r \in Reasons : again.reject_counts[r] = 0

C8_Witness ==
    /\ pc = "done"
    /\ Len(results) = 2
    /\ matches[1].mm = <<"5">>
    /\ Len(matches[2].yy) = 4

C10_ProgressCadence ==
    Running =>
        \A k \in 1..Scanned :
            (k % 1000 = 0 \/ k = Len(matches)) =>
                \E j \in 1..Len(progress) :
                    /\ progress[j].i = k
                    /\ progress[j].valid = Len(ValidLines(k))
                    /\ progress[j].kept = Len(ValidLines(k))

=============================================================================
